---- MODULE Spec2Model ----
(***************************************************************************)
(* Motion-blur BVH builder (kernels/builders/bvh_builder_msmblur.h):       *)
(* SharedVector, LocalChildListT and GeneralBVHMBBuilder as a state        *)
(* machine.  A build is a tree of activation frames (recurse and           *)
(* createLargeLeaf), addressed by the path of child slots from the root.   *)
(* The object- and temporal-binning heuristics, getTimeSegmentRange and    *)
(* parallel_for live outside this file and are modelled by their contract. *)
(***************************************************************************)
EXTENDS Integers, Sequences, FiniteSets, TLC

VARIABLES
  cfg,       \* constructor arguments of GeneralBVHMBBuilder
  totals,    \* input: totalTimeSegments of primitive ID i (the mesh's numTimeSegments)
  mayThrow,  \* whether the callbacks of this run may raise
  heur,      \* the heuristics: any outcome per call, or one fixed function of the set
  phase,     \* "new", "ready", "building", "done", "failed", "config_error"
  error,     \* message of the error raised, "" if none
  heap,      \* primitive arrays (mvector<PrimRefMB>): data, live, number of deletes,
             \* and the ranges deterministic_order sorted and nothing wrote since
  frames,    \* activation frames of recurse / createLargeLeaf, by path
  tree,      \* what createNode / createLeaf / updateNode were called with, by path
  progress,  \* progressMonitor calls: path -> size
  result,    \* the Reduction returned by operator()
  builds,    \* number of completed builds over this input
  refTree    \* tree of the previous completed build over the same input

vars == <<cfg, totals, mayThrow, heur, phase, error, heap, frames, tree,
          progress, result, builds, refTree>>

(***************************************************************************)
(* Program constants                                                       *)
(***************************************************************************)
MAX_BRANCHING_FACTOR == 8
MIN_LARGE_LEAF_LEVELS == 8
SINGLE_THREADED_THRESHOLD == 1024

(***************************************************************************)
(* Bounds of the model                                                     *)
(***************************************************************************)
\* prims of a small input: 1..MaxPrims
MaxPrims == 2
\* time is counted in units of 1/TimeGrid; totalTimeSegments are powers of two
MaxLogSegments == 9

TimeGrid == 2 ^ MaxLogSegments
PosInf == 2 ^ 30

Min(S) == CHOOSE x \in S : \A y \in S : x <= y
Max(S) == CHOOSE x \in S : \A y \in S : x >= y
Front(s) == SubSeq(s, 1, Len(s) - 1)
Last(s) == s[Len(s)]
NullAlloc == <<-1>>

(***************************************************************************)
(* Time segments                                                           *)
(***************************************************************************)
\* range<int> of the segments of a mesh with numTimeSegments segments that
\* overlap [lower, upper]
getTimeSegmentRange(lower, upper, numTimeSegments) ==
  [begin |-> (lower * numTimeSegments) \div TimeGrid,
   end   |-> (upper * numTimeSegments + TimeGrid - 1) \div TimeGrid]

RangeSize(r) == r.end - r.begin

\* RecalculatePrimRef::operator(): the primitive over a sub time range
RecalculatePrimRef(prim, lower, upper) ==
  [ID |-> prim.ID,
   active |-> RangeSize(getTimeSegmentRange(lower, upper, totals[prim.ID])),
   total |-> totals[prim.ID]]

(***************************************************************************)
(* SharedVector                                                            *)
(***************************************************************************)
SharedVector(ptr, refCount) == [prims |-> ptr, refCount |-> refCount]

incRef(sv) == [sv EXCEPT !.refCount = @ + 1]

\* decRef: the wrapper after --refCount, and whether delete prims runs
decRef(sv) ==
  [sv |-> [sv EXCEPT !.refCount = @ - 1], del |-> sv.refCount - 1 = 0]

\* delete of array a
Delete(h, a) ==
  [h EXCEPT ![a] = [data |-> <<>>, live |-> FALSE, frees |-> @.frees + 1, sorted |-> {}]]

RECURSIVE DeleteAll(_, _)
DeleteAll(h, as) ==
  IF as = <<>> THEN h ELSE DeleteAll(Delete(h, Head(as)), Tail(as))

(***************************************************************************)
(* LocalChildListT                                                         *)
(***************************************************************************)
NoList == [children |-> <<>>, primvecs |-> <<>>, sharedPrimVecs |-> <<>>]

\* variant: the seed wrapper starts with refCount 1, like every other wrapper
LocalChildListSeedOne(record) ==
  [children |-> <<record>>,
   primvecs |-> <<1>>,
   sharedPrimVecs |-> <<SharedVector(record.prims, 1)>>]

\* constructor: the record is child 0, its wrapper starts with refCount 2
LocalChildList(record) ==
  [children |-> <<record>>,
   primvecs |-> <<1>>,
   sharedPrimVecs |-> <<SharedVector(record.prims, 2)>>]

\* destructor: primvecs[i]->decRef() for every live child; the list's wrappers
\* afterwards and the arrays deleted, in order
RECURSIVE ListRelease(_, _, _, _)
ListRelease(list, i, svs, dels) ==
  IF i > Len(list.children) THEN [svs |-> svs, dels |-> dels]
  ELSE LET w == list.primvecs[i]
           d == decRef(svs[w])
       IN ListRelease(list, i + 1, [svs EXCEPT ![w] = d.sv],
                      IF d.del THEN Append(dels, d.sv.prims) ELSE dels)

ListDestroy(list) == ListRelease(list, 1, list.sharedPrimVecs, <<>>).dels

\* variant: a right half in the same array does not count a reference
ListSplitRightUncounted(list, bestChild, lrecord, rrecord) ==
  LET b == list.primvecs[bestChild]
      bprims == list.sharedPrimVecs[b].prims
      lsame == lrecord.prims = bprims
      rsame == rrecord.prims = bprims
      svs1 == IF lsame THEN [list.sharedPrimVecs EXCEPT ![b] = incRef(@)]
              ELSE Append(list.sharedPrimVecs, SharedVector(lrecord.prims, 1))
      lvec == IF lsame THEN b ELSE Len(svs1)
      svs2 == IF rsame THEN svs1
              ELSE Append(svs1, SharedVector(rrecord.prims, 1))
      rvec == IF rsame THEN b ELSE Len(svs2)
      d == decRef(svs2[b])
  IN [list |-> [children |-> Append([list.children EXCEPT ![bestChild] = lrecord], rrecord),
                primvecs |-> Append([list.primvecs EXCEPT ![bestChild] = lvec], rvec),
                sharedPrimVecs |-> [svs2 EXCEPT ![b] = d.sv]],
      dels |-> IF d.del THEN <<bprims>> ELSE <<>>]

\* split(bestChild, lrecord, rrecord): the list afterwards and the arrays deleted
ListSplit(list, bestChild, lrecord, rrecord) ==
  LET b == list.primvecs[bestChild]
      bprims == list.sharedPrimVecs[b].prims
      lsame == lrecord.prims = bprims
      rsame == rrecord.prims = bprims
      svs1 == IF lsame THEN [list.sharedPrimVecs EXCEPT ![b] = incRef(@)]
              ELSE Append(list.sharedPrimVecs, SharedVector(lrecord.prims, 1))
      lvec == IF lsame THEN b ELSE Len(svs1)
      svs2 == IF rsame THEN [svs1 EXCEPT ![b] = incRef(@)]
              ELSE Append(svs1, SharedVector(rrecord.prims, 1))
      rvec == IF rsame THEN b ELSE Len(svs2)
      d == decRef(svs2[b])
  IN [list |-> [children |-> Append([list.children EXCEPT ![bestChild] = lrecord], rrecord),
                primvecs |-> Append([list.primvecs EXCEPT ![bestChild] = lvec], rvec),
                sharedPrimVecs |-> [svs2 EXCEPT ![b] = d.sv]],
      dels |-> IF d.del THEN <<bprims>> ELSE <<>>]

(***************************************************************************)
(* Sets, primitive info                                                    *)
(***************************************************************************)
\* a BuildRecord: depth, the SetMB (prims, object range [begin,end) counted
\* from 0, time range [lower,upper]) and the split; pinfo is derived from the set
BuildRecord(depth, set, split) ==
  [depth |-> depth, prims |-> set.prims, begin |-> set.begin, end |-> set.end,
   lower |-> set.lower, upper |-> set.upper, split |-> split]

SetMB(prims, begin, end, lower, upper) ==
  [prims |-> prims, begin |-> begin, end |-> end, lower |-> lower, upper |-> upper]

Size(rec) == rec.end - rec.begin

PrimsOf(h, rec) == SubSeq(h[rec.prims].data, rec.begin + 1, rec.end)

IDsOf(h, rec) == {h[rec.prims].data[i].ID : i \in rec.begin + 1 .. rec.end}

ByID(a, b) == a.ID < b.ID
ByTotal(a, b) == a.total < b.total

\* pinfo.max_num_time_segments
MaxNumTimeSegments(h, rec) ==
  IF Size(rec) = 0 THEN 0
  ELSE SortSeq(PrimsOf(h, rec), ByTotal)[Size(rec)].total

\* pinfo.halfArea() and expectedApproxHalfArea(pinfo.geomBounds): primitive ID
\* i occupies [i, i+1] on a line
HalfArea(h, rec) ==
  IF Size(rec) = 0 THEN 0
  ELSE LET sorted == SortSeq(PrimsOf(h, rec), ByID)
       IN sorted[Size(rec)].ID - sorted[1].ID + 1

\* pinfo.leafSAH(logBlockSize) with logBlockSize = 0
LeafSAH(h, rec) == Size(rec) * HalfArea(h, rec)

NoSplit == [data |-> "INVALID", sah |-> PosInf, pos |-> 0, osah |-> -1, tsah |-> -1]

(***************************************************************************)
(* The two heuristics                                                      *)
(***************************************************************************)
SAHValues == {1, 2}

\* number of primitives an object split sends left
ObjectCenters(n) == {1, n \div 2, n - 1}

ObjectCenter(centre, n) ==
  IF centre = "first" THEN 1 ELSE IF centre = "last" THEN n - 1 ELSE n \div 2

\* heuristicObjectSplit.find: a position and its SAH; no valid split (SAH
\* infinite) below two primitives
ObjectFind(h, rec) ==
  LET n == Size(rec)
      none == [data |-> "OBJECT", sah |-> PosInf, pos |-> 0]
  IN IF n < 2 THEN {none}
     ELSE IF heur.any
       THEN {[data |-> "OBJECT", sah |-> s, pos |-> k] :
               s \in SAHValues, k \in ObjectCenters(n)} \cup {none}
       ELSE {[data |-> "OBJECT", sah |-> heur.osah, pos |-> ObjectCenter(heur.centre, n)]}

\* heuristicTemporalSplit.find: the segment boundary nearest the centre of the
\* time range
TemporalFind(h, rec) ==
  LET maxT == MaxNumTimeSegments(h, rec)
      r == getTimeSegmentRange(rec.lower, rec.upper, maxT)
      c == ((r.begin + r.end) \div 2) * (TimeGrid \div maxT)
  IN {[data |-> "TEMPORAL", sah |-> s, pos |-> c] :
        s \in IF heur.any THEN SAHValues ELSE {heur.tsah}}

\* set.time_range.size() > 1.01f/float(pinfo.max_num_time_segments)
TimeRangeBigEnough(h, rec) ==
  /\ MaxNumTimeSegments(h, rec) > 0
  /\ (rec.upper - rec.lower) * MaxNumTimeSegments(h, rec) * 100 > 101 * TimeGrid

\* variant: the temporal split also wins a tie
findTieTemporal(big, object_split, temporal_split) ==
  IF big /\ temporal_split.sah <= object_split.sah
    THEN [data |-> "TEMPORAL", sah |-> temporal_split.sah, pos |-> temporal_split.pos,
          osah |-> object_split.sah, tsah |-> temporal_split.sah]
    ELSE [data |-> "OBJECT", sah |-> object_split.sah, pos |-> object_split.pos,
          osah |-> object_split.sah, tsah |-> IF big THEN temporal_split.sah ELSE -1]

\* find, given what the two heuristics returned
find(big, object_split, temporal_split) ==
  IF big /\ temporal_split.sah < object_split.sah
    THEN [data |-> "TEMPORAL", sah |-> temporal_split.sah, pos |-> temporal_split.pos,
          osah |-> object_split.sah, tsah |-> temporal_split.sah]
    ELSE [data |-> "OBJECT", sah |-> object_split.sah, pos |-> object_split.pos,
          osah |-> object_split.sah, tsah |-> IF big THEN temporal_split.sah ELSE -1]

\* the splits find can return for a record
FindChoices(h, rec) ==
  IF TimeRangeBigEnough(h, rec)
    THEN {find(TRUE, o, t) : o \in ObjectFind(h, rec), t \in TemporalFind(h, rec)}
    ELSE {find(FALSE, o, o) : o \in ObjectFind(h, rec)}

\* variant: only the first primitive of the range is tested
findFallbackFirstOnly(h, current, singleLeafTimeSegment) ==
  LET prim == h[current.prims].data[current.begin + 1]
      itime_range == getTimeSegmentRange(current.lower, current.upper, prim.total)
      icenter == (itime_range.begin + itime_range.end) \div 2
  IN IF singleLeafTimeSegment /\ Size(current) > 0 /\ RangeSize(itime_range) > 1
       THEN [data |-> "TEMPORAL", sah |-> 1, pos |-> icenter * (TimeGrid \div prim.total),
             osah |-> -1, tsah |-> -1]
       ELSE [data |-> "FALLBACK", sah |-> 1, pos |-> 0, osah |-> -1, tsah |-> -1]

\* variant: the split time is one segment after the range's begin
findFallbackOffCentre(h, current, singleLeafTimeSegment) ==
  LET multi == {i \in current.begin .. current.end - 1 :
                  RangeSize(getTimeSegmentRange(current.lower, current.upper,
                                                h[current.prims].data[i + 1].total)) > 1}
  IN IF singleLeafTimeSegment /\ multi # {}
       THEN LET prim == h[current.prims].data[Min(multi) + 1]
                itime_range == getTimeSegmentRange(current.lower, current.upper, prim.total)
            IN [data |-> "TEMPORAL", sah |-> 1,
                pos |-> (itime_range.begin + 1) * (TimeGrid \div prim.total),
                osah |-> -1, tsah |-> -1]
       ELSE [data |-> "FALLBACK", sah |-> 1, pos |-> 0, osah |-> -1, tsah |-> -1]

\* findFallback
findFallback(h, current, singleLeafTimeSegment) ==
  LET multi == {i \in current.begin .. current.end - 1 :
                  RangeSize(getTimeSegmentRange(current.lower, current.upper,
                                                h[current.prims].data[i + 1].total)) > 1}
  IN IF singleLeafTimeSegment /\ multi # {}
       THEN LET prim == h[current.prims].data[Min(multi) + 1]
                itime_range == getTimeSegmentRange(current.lower, current.upper, prim.total)
                icenter == (itime_range.begin + itime_range.end) \div 2
            IN [data |-> "TEMPORAL", sah |-> 1, pos |-> icenter * (TimeGrid \div prim.total),
                osah |-> -1, tsah |-> -1]
       ELSE [data |-> "FALLBACK", sah |-> 1, pos |-> 0, osah |-> -1, tsah |-> -1]

(***************************************************************************)
(* Partitioning                                                            *)
(***************************************************************************)
\* a sequence with its first and last element exchanged
Swapped(s) ==
  [i \in 1 .. Len(s) |-> IF i = 1 THEN s[Len(s)] ELSE IF i = Len(s) THEN s[1] ELSE s[i]]

ReplaceRange(data, begin, end, seg) ==
  SubSeq(data, 1, begin) \o seg \o SubSeq(data, end + 1, Len(data))

\* variant: the order the partition left is kept
deterministic_orderSkipped(h, set) == h

\* the sorted ranges of an array that a write to [begin, end) leaves alone
Untouched(ranges, begin, end) == {r \in ranges : r[2] <= begin \/ end <= r[1]}

\* deterministic_order: std::sort of the set's object range
deterministic_order(h, set) ==
  [h EXCEPT ![set.prims].data =
     ReplaceRange(@, set.begin, set.end, SortSeq(SubSeq(@, set.begin + 1, set.end), ByID)),
            ![set.prims].sorted =
     Untouched(@, set.begin, set.end) \cup {<<set.begin, set.end>>}]

\* variant: the left half runs one primitive into the right half
splitFallbackOverlapping(set) ==
  LET center == (set.begin + set.end) \div 2
  IN [lset |-> SetMB(set.prims, set.begin, center + 1, set.lower, set.upper),
      rset |-> SetMB(set.prims, center, set.end, set.lower, set.upper)]

\* splitFallback: the two halves of the object range
splitFallback(set) ==
  LET center == (set.begin + set.end) \div 2
  IN [lset |-> SetMB(set.prims, set.begin, center, set.lower, set.upper),
      rset |-> SetMB(set.prims, center, set.end, set.lower, set.upper)]

\* heuristicTemporalSplit.split: two new arrays, the primitives recalculated
\* over the two halves of the time range
TemporalSplit(h, brecord) ==
  LET src == PrimsOf(h, brecord)
      c == brecord.split.pos
      n == Len(src)
      larr == [i \in 1 .. n |-> RecalculatePrimRef(src[i], brecord.lower, c)]
      rarr == [i \in 1 .. n |-> RecalculatePrimRef(src[i], c, brecord.upper)]
  IN [heap |-> h \o <<[data |-> larr, live |-> TRUE, frees |-> 0, sorted |-> {}],
                      [data |-> rarr, live |-> TRUE, frees |-> 0, sorted |-> {}]>>,
      lset |-> SetMB(Len(h) + 1, 0, n, brecord.lower, c),
      rset |-> SetMB(Len(h) + 2, 0, n, c, brecord.upper)]

\* heuristicObjectSplit.split: in-place partition of the object range, the
\* split.pos leftmost primitives on the line to the left; the order inside a
\* side is the (parallel) partition's; an invalid split is a fallback split
ObjectSplit(h, brecord, scramble) ==
  IF brecord.split.pos = 0
    THEN LET sp == splitFallback(brecord)
         IN [heap |-> deterministic_order(h, brecord), lset |-> sp.lset, rset |-> sp.rset]
    ELSE
      LET src == PrimsOf(h, brecord)
          k == brecord.split.pos
          pivot == SortSeq(src, ByID)[k].ID
          IsLeft(p) == p.ID <= pivot
          IsRight(p) == p.ID > pivot
          l == SelectSeq(src, IsLeft)
          r == SelectSeq(src, IsRight)
          seg == IF scramble THEN Swapped(l) \o Swapped(r) ELSE l \o r
          center == brecord.begin + k
      IN [heap |-> [h EXCEPT ![brecord.prims].data =
                      ReplaceRange(@, brecord.begin, brecord.end, seg),
                                 ![brecord.prims].sorted =
                      Untouched(@, brecord.begin, brecord.end)],
          lset |-> SetMB(brecord.prims, brecord.begin, center, brecord.lower, brecord.upper),
          rset |-> SetMB(brecord.prims, center, brecord.end, brecord.lower, brecord.upper)]

\* partition: fallback, temporal or object split of brecord
partition(h, brecord, scramble) ==
  IF brecord.split.data = "FALLBACK"
    THEN LET sp == splitFallback(brecord)
         IN [heap |-> deterministic_order(h, brecord), lset |-> sp.lset, rset |-> sp.rset]
  ELSE IF brecord.split.data = "TEMPORAL"
    THEN TemporalSplit(h, brecord)
  ELSE ObjectSplit(h, brecord, scramble)

\* whether the partition of brecord has more than one outcome
Scrambles(brecord) ==
  IF brecord.split.data = "OBJECT" /\ brecord.split.pos # 0 /\ Size(brecord) > 2
    THEN BOOLEAN ELSE {FALSE}

(***************************************************************************)
(* Activation frames                                                       *)
(***************************************************************************)
NoFrames == [x \in {} |-> 0]
NoTree == [x \in {} |-> 0]

\* a call of recurse (pc "enter") or createLargeLeaf (pc "leaf") on a record
Frame(fn, record, alloc, toplevel) ==
  [fn |-> fn, pc |-> IF fn = "recurse" THEN "enter" ELSE "leaf",
   current |-> record, alloc |-> alloc, toplevel |-> toplevel,
   list |-> NoList, values |-> <<>>, par |-> FALSE, failed |-> FALSE, exc |-> ""]

Without(fs, p) == [c \in DOMAIN fs \ {p} |-> fs[c]]

Running(fs, q) == {c \in DOMAIN fs : Len(c) = Len(q) + 1 /\ Front(c) = q}

RECURSIVE SumSeq(_)
SumSeq(s) == IF s = <<>> THEN 0 ELSE Head(s) + SumSeq(Tail(s))

\* the callbacks raise only in runs that allow it
Raises(called) == IF mayThrow /\ called THEN BOOLEAN ELSE {FALSE}

\* variant: the sequential loop does not advance
RecurseNextStuck(i) == i

\* recurse's sequential loop: children.size()-1 down to 0, the caller's
\* allocator, toplevel = false
RecurseNext(i) == i - 1

\* createLargeLeaf's loop: 0 up to children.size()-1
LargeLeafNext(i) == i + 1

SequentialCall(parent, i) ==
  IF parent.fn = "recurse"
    THEN Frame("recurse", parent.list.children[i], parent.alloc, FALSE)
    ELSE Frame("createLargeLeaf", parent.list.children[i], parent.alloc, FALSE)

\* frame p (already removed from fs) hands its Reduction to its caller, which
\* calls its next child or, with all children finished, goes on to updateNode;
\* a parallel_for joins when its last task ends and rethrows what a task raised
Deliver(fs, p, value) ==
  LET q == Front(p)
      i == Last(p)
      caller == [fs[q] EXCEPT !.values[i] = value]
      n == Len(caller.list.children)
      next == IF caller.fn = "recurse" THEN RecurseNext(i) ELSE LargeLeafNext(i)
  IN IF caller.par
       THEN [fs EXCEPT ![q] =
               IF Running(fs, q) = {}
                 THEN [caller EXCEPT !.pc = IF caller.failed THEN "throw" ELSE "update"]
                 ELSE caller]
       ELSE IF next \in 1 .. n
         THEN [fs EXCEPT ![q] = caller] @@ (Append(q, next) :> SequentialCall(caller, next))
         ELSE [fs EXCEPT ![q] = [caller EXCEPT !.pc = "update"]]

\* variant: parallel_for rethrows at once, without joining its other tasks
RaiseWithoutJoin(fs, p, exc) ==
  LET q == Front(p)
      caller == [fs[q] EXCEPT !.exc = exc, !.failed = TRUE]
  IN [fs EXCEPT ![q] = [caller EXCEPT !.pc = "throw"]]

\* frame p (already removed from fs) raises exc into its caller
Raise(fs, p, exc) ==
  LET q == Front(p)
      caller == [fs[q] EXCEPT !.exc = exc, !.failed = TRUE]
  IN [fs EXCEPT ![q] =
        IF caller.par /\ Running(fs, q) # {} THEN caller
        ELSE [caller EXCEPT !.pc = "throw"]]

(***************************************************************************)
(* The tree handed to the callbacks                                        *)
(***************************************************************************)
ChildSummary(record) == [size |-> Size(record), lower |-> record.lower, upper |-> record.upper]

\* createNode(current, &children[0], children.size(), alloc)
NodeEntry(fr) ==
  [kind |-> "node", by |-> fr.fn, depth |-> fr.current.depth,
   n |-> Len(fr.list.children),
   kids |-> [i \in 1 .. Len(fr.list.children) |-> ChildSummary(fr.list.children[i])],
   prims |-> <<>>, lower |-> fr.current.lower, upper |-> fr.current.upper,
   alloc |-> fr.alloc, updated |-> FALSE, ordered |-> FALSE]

\* createLeaf(current, alloc); ordered: the last write to the set's range was
\* a deterministic_order of exactly that range
LeafEntry(h, fr) ==
  [kind |-> "leaf", by |-> fr.fn, depth |-> fr.current.depth,
   n |-> Size(fr.current), kids |-> <<>>,
   prims |-> PrimsOf(h, fr.current), lower |-> fr.current.lower, upper |-> fr.current.upper,
   alloc |-> fr.alloc, updated |-> FALSE,
   ordered |-> <<fr.current.begin, fr.current.end>> \in h[fr.current.prims].sorted]

(***************************************************************************)
(* Construction and build entry                                            *)
(***************************************************************************)
\* variant: the check off by one
BranchingFactorTooLargeOffByOne(branchingFactor) == branchingFactor > MAX_BRANCHING_FACTOR + 1

\* the constructor's check
BranchingFactorTooLarge(branchingFactor) == branchingFactor > MAX_BRANCHING_FACTOR

Construct ==
  /\ phase = "new"
  /\ IF BranchingFactorTooLarge(cfg.branchingFactor)
       THEN phase' = "config_error" /\ error' = "bvh_builder: branching factor too large"
       ELSE phase' = "ready" /\ UNCHANGED error
  /\ UNCHANGED <<cfg, totals, mayThrow, heur, heap, frames, tree, progress, result,
                 builds, refTree>>

\* the caller's record: the whole input array over the time range [0,1]
RootRecord ==
  BuildRecord(0, SetMB(1, 0, Len(heap[1].data), 0, TimeGrid), NoSplit)

\* operator(): record.split = find(record); recurse(record,nullptr,true)
BuildEntry ==
  /\ phase = "ready"
  /\ \E s \in FindChoices(heap, RootRecord) :
       frames' = (<<>> :> Frame("recurse", [RootRecord EXCEPT !.split = s], NullAlloc, TRUE))
  /\ phase' = "building"
  /\ tree' = NoTree
  /\ progress' = NoTree
  /\ UNCHANGED <<cfg, totals, mayThrow, heur, error, heap, result, builds, refTree>>

\* frame p returns value: to its caller, or out of operator()
Return(p, value) ==
  IF p = <<>>
    THEN /\ frames' = NoFrames
         /\ phase' = "done"
         /\ result' = value
         /\ builds' = builds + 1
    ELSE /\ frames' = Deliver(Without(frames, p), p, value)
         /\ UNCHANGED <<phase, result, builds>>

(***************************************************************************)
(* recurse                                                                 *)
(***************************************************************************)
\* variant: the large-leaf levels are entered one level late
LeafConditionLate(h, current) ==
  \/ Size(current) <= cfg.minLeafSize
  \/ current.depth + MIN_LARGE_LEAF_LEVELS > cfg.maxDepth
  \/ /\ Size(current) <= cfg.maxLeafSize
     /\ LeafSAH(h, current) <= HalfArea(h, current) + current.split.sah

\* the condition under which recurse creates a leaf
LeafCondition(h, current) ==
  \/ Size(current) <= cfg.minLeafSize
  \/ current.depth + MIN_LARGE_LEAF_LEVELS >= cfg.maxDepth
  \/ /\ Size(current) <= cfg.maxLeafSize
     /\ LeafSAH(h, current) <= HalfArea(h, current) + current.split.sah

\* variant: progress is reported whatever toplevel is
ReportsProgressNested(toplevel, size) == size <= SINGLE_THREADED_THRESHOLD

\* whether progress is reported
ReportsProgress(toplevel, size) == toplevel /\ size <= SINGLE_THREADED_THRESHOLD

\* entry of recurse up to the leaf test: createAlloc, progressMonitor, then
\* either deterministic_order and createLargeLeaf(current,alloc) or the child list
RecurseEnter(p) ==
  /\ phase = "building"
  /\ p \in DOMAIN frames
  /\ frames[p].pc = "enter"
  /\ LET fr == frames[p]
         current == fr.current
         alloc == IF fr.alloc = NullAlloc THEN p ELSE fr.alloc
         report == ReportsProgress(fr.toplevel, Size(current))
     IN \E raise \in Raises(fr.alloc = NullAlloc \/ report) :
          IF raise
            THEN /\ frames' = [frames EXCEPT ![p].pc = "throw", ![p].exc = "callback"]
                 /\ UNCHANGED <<heap, progress>>
            ELSE /\ progress' = IF report THEN progress @@ (p :> Size(current)) ELSE progress
                 /\ IF LeafCondition(heap, current)
                      THEN /\ heap' = deterministic_order(heap, current)
                           /\ frames' = [frames EXCEPT ![p].fn = "createLargeLeaf",
                                                       ![p].pc = "leaf",
                                                       ![p].alloc = alloc]
                      ELSE /\ heap' = heap
                           /\ frames' = [frames EXCEPT ![p].pc = "fill",
                                                       ![p].alloc = alloc,
                                                       ![p].list = LocalChildList(current)]
  /\ UNCHANGED <<cfg, totals, mayThrow, heur, phase, error, tree, result, builds, refTree>>

\* recurse's choice of the child to split: the largest expectedApproxHalfArea
\* among the children above minLeafSize, the first of equals; 0 if there is none
RECURSIVE BestByArea(_, _, _, _, _)
BestByArea(h, children, i, bestChild, bestSAH) ==
  IF i > Len(children) THEN bestChild
  ELSE IF Size(children[i]) <= cfg.minLeafSize
    THEN BestByArea(h, children, i + 1, bestChild, bestSAH)
  ELSE IF HalfArea(h, children[i]) > bestSAH
    THEN BestByArea(h, children, i + 1, i, HalfArea(h, children[i]))
  ELSE BestByArea(h, children, i + 1, bestChild, bestSAH)

\* variant: the loops fill the arrays to their capacity
NodeNotFullToCapacity(numChildren) == numChildren < MAX_BRANCHING_FACTOR

\* variant: the loop condition off by one
NodeNotFullInclusive(numChildren) == numChildren <= cfg.branchingFactor

\* the do-while condition of both filling loops
NodeNotFull(numChildren) == numChildren < cfg.branchingFactor

\* one pass of recurse's filling loop: partition the best child, find the
\* splits of the two halves, children.split
RecurseSplit(p) ==
  /\ phase = "building"
  /\ p \in DOMAIN frames
  /\ frames[p].pc = "fill"
  /\ frames[p].fn = "recurse"
  /\ LET fr == frames[p]
         bestChild == BestByArea(heap, fr.list.children, 1, 0, -1)
     IN IF bestChild = 0
          THEN /\ frames' = [frames EXCEPT ![p].pc = "node"]
               /\ heap' = heap
          ELSE LET brecord == fr.list.children[bestChild] IN
               \E scramble \in Scrambles(brecord) :
                 LET part == partition(heap, brecord, scramble)
                     lrecord == BuildRecord(fr.current.depth + 1, part.lset, NoSplit)
                     rrecord == BuildRecord(fr.current.depth + 1, part.rset, NoSplit)
                 IN \E ls \in FindChoices(part.heap, lrecord), rs \in FindChoices(part.heap, rrecord) :
                      LET sp == ListSplit(fr.list, bestChild,
                                          [lrecord EXCEPT !.split = ls],
                                          [rrecord EXCEPT !.split = rs])
                      IN /\ heap' = DeleteAll(part.heap, sp.dels)
                         /\ frames' = [frames EXCEPT
                              ![p].list = sp.list,
                              ![p].pc = IF NodeNotFull(Len(sp.list.children))
                                          THEN "fill" ELSE "node"]
  /\ UNCHANGED <<cfg, totals, mayThrow, heur, phase, error, tree, progress, result,
                 builds, refTree>>

\* whether recurse runs the children as parallel_for tasks
SpawnsTasks(current) == Size(current) > SINGLE_THREADED_THRESHOLD

\* variant: the tasks are given the caller's allocator
ParallelCallsCallersAlloc(p, fr) ==
  [c \in {Append(p, i) : i \in 1 .. Len(fr.list.children)} |->
     Frame("recurse", fr.list.children[Last(c)], fr.alloc, TRUE)]

\* variant: every task is given the first child
ParallelCallsFirstChild(p, fr) ==
  [c \in {Append(p, i) : i \in 1 .. Len(fr.list.children)} |->
     Frame("recurse", fr.list.children[1], NullAlloc, TRUE)]

\* the children of a parallel_for: recurse(children[i],nullptr,true) each
ParallelCalls(p, fr) ==
  [c \in {Append(p, i) : i \in 1 .. Len(fr.list.children)} |->
     Frame("recurse", fr.list.children[Last(c)], NullAlloc, TRUE)]

\* createNode, then the children: parallel_for tasks, or the first call of the
\* sequential loop
RecurseCreateNode(p) ==
  /\ phase = "building"
  /\ p \in DOMAIN frames
  /\ frames[p].pc = "node"
  /\ frames[p].fn = "recurse"
  /\ LET fr == frames[p]
         n == Len(fr.list.children)
         called == [fr EXCEPT !.values = [i \in 1 .. n |-> 0]]
     IN \E raise \in Raises(TRUE) :
          IF raise
            THEN /\ frames' = [frames EXCEPT ![p].pc = "throw", ![p].exc = "callback"]
                 /\ tree' = tree
            ELSE /\ tree' = tree @@ (p :> NodeEntry(fr))
                 /\ IF SpawnsTasks(fr.current)
                      THEN frames' = [frames EXCEPT ![p] = [called EXCEPT !.pc = "wait", !.par = TRUE]]
                                       @@ ParallelCalls(p, fr)
                      ELSE frames' = [frames EXCEPT ![p] = [called EXCEPT !.pc = "wait"]]
                                       @@ (Append(p, n) :> SequentialCall(fr, n))
  /\ UNCHANGED <<cfg, totals, mayThrow, heur, phase, error, heap, progress, result,
                 builds, refTree>>

(***************************************************************************)
(* createLargeLeaf                                                         *)
(***************************************************************************)
\* variant: the depth check one level late
DepthLimitReachedLate(current) == current.depth > cfg.maxDepth + 1

\* the depth check
DepthLimitReached(current) == current.depth > cfg.maxDepth

\* variant: the size test off by one
FewPrimitivesOneMore(record) ==
  Size(record) <= cfg.maxLeafSize + 1 /\ record.split.data # "TEMPORAL"

\* the condition under which createLargeLeaf calls createLeaf, and under which
\* its filling loop leaves a child alone
FewPrimitives(record) ==
  Size(record) <= cfg.maxLeafSize /\ record.split.data # "TEMPORAL"

\* entry of createLargeLeaf: depth check, findFallback, then createLeaf and
\* return, or the child list
LargeLeafEnter(p) ==
  /\ phase = "building"
  /\ p \in DOMAIN frames
  /\ frames[p].pc = "leaf"
  /\ LET fr == frames[p]
         current == [fr.current EXCEPT
                       !.split = findFallback(heap, fr.current, cfg.singleLeafTimeSegment)]
         here == [fr EXCEPT !.current = current]
     IN IF DepthLimitReached(fr.current)
          THEN /\ frames' = [frames EXCEPT ![p].pc = "throw", ![p].exc = "depth limit reached"]
               /\ UNCHANGED <<phase, tree, result, builds>>
          ELSE IF FewPrimitives(current)
            THEN \E raise \in Raises(TRUE) :
                   IF raise
                     THEN /\ frames' = [frames EXCEPT ![p] = [here EXCEPT !.pc = "throw",
                                                                          !.exc = "callback"]]
                          /\ UNCHANGED <<phase, tree, result, builds>>
                     ELSE /\ tree' = tree @@ (p :> LeafEntry(heap, here))
                          /\ Return(p, Size(current))
            ELSE /\ frames' = [frames EXCEPT ![p] = [here EXCEPT !.pc = "fill",
                                                                 !.list = LocalChildList(current)]]
                 /\ UNCHANGED <<phase, tree, result, builds>>
  /\ UNCHANGED <<cfg, totals, mayThrow, heur, error, heap, progress, refTree>>

\* createLargeLeaf's choice of the child to split: the largest among those that
\* are not leaves, the first of equals; 0 if there is none
RECURSIVE BestBySize(_, _, _, _)
BestBySize(children, i, bestChild, bestSize) ==
  IF i > Len(children) THEN bestChild
  ELSE IF FewPrimitives(children[i])
    THEN BestBySize(children, i + 1, bestChild, bestSize)
  ELSE IF Size(children[i]) > bestSize
    THEN BestBySize(children, i + 1, i, Size(children[i]))
  ELSE BestBySize(children, i + 1, bestChild, bestSize)

\* one pass of createLargeLeaf's filling loop
LargeLeafSplit(p) ==
  /\ phase = "building"
  /\ p \in DOMAIN frames
  /\ frames[p].pc = "fill"
  /\ frames[p].fn = "createLargeLeaf"
  /\ LET fr == frames[p]
         bestChild == BestBySize(fr.list.children, 1, 0, 0)
     IN IF bestChild = 0
          THEN /\ frames' = [frames EXCEPT ![p].pc = "node"]
               /\ heap' = heap
          ELSE LET brecord == fr.list.children[bestChild]
                   part == partition(heap, brecord, FALSE)
                   lrecord == BuildRecord(fr.current.depth + 1, part.lset, NoSplit)
                   rrecord == BuildRecord(fr.current.depth + 1, part.rset, NoSplit)
                   sp == ListSplit(fr.list, bestChild,
                           [lrecord EXCEPT !.split =
                              findFallback(part.heap, lrecord, cfg.singleLeafTimeSegment)],
                           [rrecord EXCEPT !.split =
                              findFallback(part.heap, rrecord, cfg.singleLeafTimeSegment)])
               IN /\ heap' = DeleteAll(part.heap, sp.dels)
                  /\ frames' = [frames EXCEPT
                       ![p].list = sp.list,
                       ![p].pc = IF NodeNotFull(Len(sp.list.children)) THEN "fill" ELSE "node"]
  /\ UNCHANGED <<cfg, totals, mayThrow, heur, phase, error, tree, progress, result,
                 builds, refTree>>

\* createNode, then createLargeLeaf(children[0],alloc)
LargeLeafCreateNode(p) ==
  /\ phase = "building"
  /\ p \in DOMAIN frames
  /\ frames[p].pc = "node"
  /\ frames[p].fn = "createLargeLeaf"
  /\ LET fr == frames[p]
         n == Len(fr.list.children)
         called == [fr EXCEPT !.values = [i \in 1 .. n |-> 0], !.pc = "wait"]
     IN \E raise \in Raises(TRUE) :
          IF raise
            THEN /\ frames' = [frames EXCEPT ![p].pc = "throw", ![p].exc = "callback"]
                 /\ tree' = tree
            ELSE /\ tree' = tree @@ (p :> NodeEntry(fr))
                 /\ frames' = [frames EXCEPT ![p] = called] @@ (Append(p, 1) :> SequentialCall(fr, 1))
  /\ UNCHANGED <<cfg, totals, mayThrow, heur, phase, error, heap, progress, result,
                 builds, refTree>>

(***************************************************************************)
(* Reduction, return and unwinding                                         *)
(***************************************************************************)
\* updateNode(node,current.prims,values,children.size()), the child list's
\* destructor, return
UpdateNode(p) ==
  /\ phase = "building"
  /\ p \in DOMAIN frames
  /\ frames[p].pc = "update"
  /\ LET fr == frames[p]
     IN \E raise \in Raises(TRUE) :
          IF raise
            THEN /\ frames' = [frames EXCEPT ![p].pc = "throw", ![p].exc = "callback"]
                 /\ UNCHANGED <<phase, heap, tree, result, builds>>
            ELSE /\ tree' = [tree EXCEPT ![p].updated = TRUE]
                 /\ heap' = DeleteAll(heap, ListDestroy(fr.list))
                 /\ Return(p, SumSeq(fr.values))
  /\ UNCHANGED <<cfg, totals, mayThrow, heur, error, progress, refTree>>

\* variant: unwinding skips the list's destructor
UnwoundNothing(list) == <<>>

\* what stack unwinding deletes in a frame: ~LocalChildListT() runs if the
\* list was constructed
Unwound(list) == IF list = NoList THEN <<>> ELSE ListDestroy(list)

\* an exception leaves frame p: the child list's destructor if the list was
\* constructed, then the caller, or the caller of operator()
Unwind(p) ==
  /\ phase = "building"
  /\ p \in DOMAIN frames
  /\ frames[p].pc = "throw"
  /\ LET fr == frames[p]
     IN /\ heap' = DeleteAll(heap, Unwound(fr.list))
        /\ IF p = <<>>
             THEN /\ frames' = NoFrames
                  /\ phase' = "failed"
                  /\ error' = fr.exc
             ELSE /\ frames' = Raise(Without(frames, p), p, fr.exc)
                  /\ UNCHANGED <<phase, error>>
  /\ UNCHANGED <<cfg, totals, mayThrow, heur, tree, progress, result, builds, refTree>>

(***************************************************************************)
(* Runs                                                                    *)
(***************************************************************************)
Config(branchingFactor, maxDepth, minLeafSize, maxLeafSize, singleLeafTimeSegment) ==
  [branchingFactor |-> branchingFactor, maxDepth |-> maxDepth,
   minLeafSize |-> minLeafSize, maxLeafSize |-> maxLeafSize,
   singleLeafTimeSegment |-> singleLeafTimeSegment]

AnyHeuristic == [any |-> TRUE, osah |-> 0, tsah |-> 0, centre |-> "mid"]

FixedHeuristics ==
  [any : {FALSE}, osah : SAHValues, tsah : SAHValues, centre : {"first", "mid"}]

\* small inputs: up to MaxPrims primitives with one or two time segments each
SmallInputs == UNION {[1 .. n -> {1, 2}] : n \in 1 .. MaxPrims}

SmallRunsWith(heuristics) ==
  {[cfg |-> Config(bf, md, 1, ml, st), totals |-> in, mayThrow |-> th, heur |-> h] :
     bf \in {1, 2, 3, MAX_BRANCHING_FACTOR + 1},
     md \in {MIN_LARGE_LEAF_LEVELS, MIN_LARGE_LEAF_LEVELS + 2},
     ml \in {1, 2}, st \in BOOLEAN, in \in SmallInputs, th \in BOOLEAN, h \in heuristics}

SmallRuns == SmallRunsWith({AnyHeuristic})

\* deep inputs: one primitive with many time segments, every leaf a single
\* time segment, so that createLargeLeaf alone builds a tall tree
DeepRuns ==
  {[cfg |-> Config(bf, MIN_LARGE_LEAF_LEVELS, 1, 1, TRUE),
    totals |-> <<2 ^ k>>, mayThrow |-> FALSE, heur |-> AnyHeuristic] :
     bf \in {2, MAX_BRANCHING_FACTOR}, k \in {MaxLogSegments - 1, MaxLogSegments}}

\* large inputs: just above the single threaded threshold, so that recurse
\* spawns tasks; the root's children are large leaves, every record may become
\* a leaf
LargeInput == [i \in 1 .. SINGLE_THREADED_THRESHOLD + 1 |-> 2]

LargeHeuristics ==
  {[any |-> FALSE, osah |-> 2, tsah |-> 2, centre |-> "first"],
   [any |-> FALSE, osah |-> 2, tsah |-> 2, centre |-> "mid"],
   [any |-> FALSE, osah |-> 2, tsah |-> 1, centre |-> "mid"]}

LargeRuns ==
  {run \in
     {[cfg |-> Config(bf, MIN_LARGE_LEAF_LEVELS + 1, 1, SINGLE_THREADED_THRESHOLD + 1, st),
       totals |-> LargeInput, mayThrow |-> th, heur |-> h] :
        bf \in {2, 3}, st \in BOOLEAN, th \in BOOLEAN, h \in LargeHeuristics} :
     run.cfg.branchingFactor = 2 \/ (~run.cfg.singleLeafTimeSegment /\ ~run.mayThrow)}

\* one motion blur primitive with 4, 8, ... time segments over [0,1], every
\* leaf a single time segment
SegmentRuns ==
  {[cfg |-> Config(bf, MIN_LARGE_LEAF_LEVELS, 1, 1, TRUE),
    totals |-> <<2 ^ k>>, mayThrow |-> FALSE, heur |-> AnyHeuristic] :
     bf \in {2, 3, MAX_BRANCHING_FACTOR}, k \in 2 .. MaxLogSegments - 2}

Runs == SmallRuns \cup DeepRuns \cup LargeRuns \cup SegmentRuns

InitialArray ==
  [data |-> [i \in 1 .. Len(totals) |-> [ID |-> i, active |-> totals[i], total |-> totals[i]]],
   live |-> TRUE, frees |-> 0, sorted |-> {}]

\* runs whose heuristics are functions of the set
FixedRuns == SmallRunsWith(FixedHeuristics) \cup LargeRuns

InitOf(runs) ==
  /\ \E run \in runs :
       /\ cfg = run.cfg
       /\ totals = run.totals
       /\ mayThrow = run.mayThrow
       /\ heur = run.heur
  /\ phase = "new"
  /\ error = ""
  /\ heap = <<InitialArray>>
  /\ frames = NoFrames
  /\ tree = NoTree
  /\ progress = NoTree
  /\ result = 0
  /\ builds = 0
  /\ refTree = NoTree

Init == InitOf(Runs)

InitFixed == InitOf(FixedRuns)

\* a second build of the same input with the same builder: the first tree is
\* kept for comparison, operator() is called on a fresh copy of the input
Rebuild ==
  /\ phase = "done"
  /\ builds = 1
  /\ phase' = "ready"
  /\ refTree' = tree
  /\ tree' = NoTree
  /\ progress' = NoTree
  /\ heap' = <<InitialArray>>
  /\ UNCHANGED <<cfg, totals, mayThrow, heur, error, frames, result, builds>>

Next ==
  \/ Construct
  \/ BuildEntry
  \/ \E p \in DOMAIN frames : RecurseEnter(p)
  \/ \E p \in DOMAIN frames : RecurseSplit(p)
  \/ \E p \in DOMAIN frames : RecurseCreateNode(p)
  \/ \E p \in DOMAIN frames : LargeLeafEnter(p)
  \/ \E p \in DOMAIN frames : LargeLeafSplit(p)
  \/ \E p \in DOMAIN frames : LargeLeafCreateNode(p)
  \/ \E p \in DOMAIN frames : UpdateNode(p)
  \/ \E p \in DOMAIN frames : Unwind(p)

Spec == Init /\ [][Next]_vars

NextTwice == Next \/ Rebuild

\* two builds over the same input with heuristics that are functions of the set
SpecTwice == InitFixed /\ [][NextTwice]_vars

\* a step is pending: the constructor, operator() or a frame of the build
Busy == phase \in {"new", "ready", "building"}

\* the build under fair scheduling: the calling thread and the tasks of
\* parallel_for keep taking steps while one is pending (weak fairness of Next,
\* whose enabling condition is Busy)
FairSpec == Spec /\ WF_vars(Construct) /\ ([]<>~Busy \/ []<><<Next>>_vars)

(***************************************************************************)
(* Properties                                                              *)
(***************************************************************************)
Nodes == {p \in DOMAIN tree : tree[p].kind = "node"}
Leaves == {p \in DOMAIN tree : tree[p].kind = "leaf"}
LegalBranchingFactor == cfg.branchingFactor \in 2 .. MAX_BRANCHING_FACTOR

\* the arrays the temporal splits of this build allocated
Allocated == 2 .. Len(heap)

\* the records a frame still reads: its own and the live children of its list
RecordsOf(fr) == {fr.current} \cup {fr.list.children[i] : i \in 1 .. Len(fr.list.children)}

\* C1: no primitive array is deleted while a record of a running frame (its
\* current record or a live child of its list) or the caller's root record
\* references it, no array is deleted twice, and when operator() has returned
\* every array a temporal split allocated has been deleted exactly once
C1_RefCountSoundness ==
  /\ heap[1].live
  /\ \A p \in DOMAIN frames : \A r \in RecordsOf(frames[p]) : heap[r.prims].live
  /\ \A a \in Allocated : heap[a].frees <= 1
  /\ phase = "done" => \A a \in Allocated : heap[a].frees = 1

\* a finished build whose temporal splits allocated at least four arrays
C1_Witness ==
  /\ phase = "done"
  /\ Len(heap) >= 5
  /\ \A a \in Allocated : ~heap[a].live

\* C2: with a branching factor in [2,8], every createNode call, from recurse
\* and from createLargeLeaf, gets between 2 and branchingFactor children
C2_BoundedFanout ==
  LegalBranchingFactor =>
    \A p \in Nodes : 2 <= tree[p].n /\ tree[p].n <= cfg.branchingFactor

\* a full node created by recurse above a full node created by createLargeLeaf
C2_Witness ==
  /\ LegalBranchingFactor
  /\ \E p, q \in Nodes :
       /\ tree[p].by = "recurse" /\ tree[p].n = cfg.branchingFactor
       /\ tree[q].by = "createLargeLeaf" /\ tree[q].n = cfg.branchingFactor

\* C3: every createLeaf call is for a record of depth at most maxDepth
C3_LeafDepth == \A p \in Leaves : tree[p].depth <= cfg.maxDepth

\* a leaf at depth maxDepth, its depth the length of its path
C3_Witness ==
  \E p \in Leaves : tree[p].depth = cfg.maxDepth /\ Len(p) = cfg.maxDepth

\* C4: every createLeaf call is for a record of at most maxLeafSize primitives
C4_LeafSize == \A p \in Leaves : tree[p].n <= cfg.maxLeafSize

\* a leaf of exactly maxLeafSize = 2 primitives below a node
C4_Witness ==
  \E p \in Leaves : p # <<>> /\ tree[p].n = cfg.maxLeafSize /\ cfg.maxLeafSize = 2

\* C5: with singleLeafTimeSegment, every primitive of every leaf has exactly
\* one time segment within the leaf's time range
C5_SingleLeafTimeSegment ==
  cfg.singleLeafTimeSegment =>
    \A p \in Leaves : \A i \in 1 .. Len(tree[p].prims) :
      RangeSize(getTimeSegmentRange(tree[p].lower, tree[p].upper, tree[p].prims[i].total)) = 1

\* a leaf over half the time range holding a two-segment primitive and a
\* one-segment primitive
C5_Witness ==
  /\ cfg.singleLeafTimeSegment
  /\ \E p \in Leaves :
       /\ tree[p].upper - tree[p].lower < TimeGrid
       /\ \E i, j \in 1 .. Len(tree[p].prims) :
            tree[p].prims[i].total = 2 /\ tree[p].prims[j].total = 1

\* the IDs of a sequence of primitives
IDSet(prims) == {prims[i].ID : i \in 1 .. Len(prims)}

\* parts (elements with fields key, lower, upper, ids) that cover the
\* primitives full over the time range [lower, upper]: at every time the parts
\* whose time range holds it partition full
Covers(S, full, lower, upper) ==
  /\ \A x \in S : lower <= x.lower /\ x.lower < x.upper /\ x.upper <= upper /\ x.ids \subseteq full
  /\ \A t \in {lower} \cup {x.lower : x \in S} \cup {x.upper : x \in S} :
       t < upper =>
         LET K == {x \in S : x.lower <= t /\ t < x.upper}
         IN /\ UNION {x.ids : x \in K} = full
            /\ \A x, y \in K : x = y \/ x.ids \cap y.ids = {}

\* C6 as stated: the primitives of every leaf are exactly the root primitives
\* whose time segments meet the leaf's time range, each once
C6_LeafHoldsAllRootPrimitives ==
  \A p \in Leaves :
    /\ IDSet(tree[p].prims) =
         {id \in 1 .. Len(totals) :
            RangeSize(getTimeSegmentRange(tree[p].lower, tree[p].upper, totals[id])) >= 1}
    /\ Cardinality(IDSet(tree[p].prims)) = Len(tree[p].prims)

\* C6 amended: the children of every child list cover the list's record: at
\* every time of the record's time range each of its primitives is in exactly
\* one child whose time range holds that time, and in it once; and the leaves
\* of a finished build cover the input in this way
C6_Coverage ==
  /\ \A p \in DOMAIN frames :
       LET fr == frames[p]
           n == Len(fr.list.children)
           parts == {[key |-> i, lower |-> fr.list.children[i].lower,
                      upper |-> fr.list.children[i].upper,
                      ids |-> IDsOf(heap, fr.list.children[i])] : i \in 1 .. n}
       IN n > 0 =>
            /\ \A x \in parts : Cardinality(x.ids) = Size(fr.list.children[x.key])
            /\ Covers(parts, IDsOf(heap, fr.current), fr.current.lower, fr.current.upper)
  /\ phase = "done" =>
       /\ \A p \in Leaves : Cardinality(IDSet(tree[p].prims)) = Len(tree[p].prims)
       /\ Covers({[key |-> p, lower |-> tree[p].lower, upper |-> tree[p].upper,
                   ids |-> IDSet(tree[p].prims)] : p \in Leaves},
                 1 .. Len(totals), 0, TimeGrid)

\* a finished build of several primitives with leaves of different time ranges
\* (a temporal split) and sibling leaves of createLargeLeaf that share a time
\* range and differ in their primitives (a fallback split)
C6_Witness ==
  /\ phase = "done"
  /\ Len(totals) >= 2
  /\ \E p, q \in Leaves : tree[p].lower # tree[q].lower
  /\ \E p, q \in Leaves :
       /\ Front(p) = Front(q)
       /\ tree[Front(p)].by = "createLargeLeaf"
       /\ tree[p].lower = tree[q].lower
       /\ tree[p].prims # tree[q].prims

\* C7: a second build over the same input, with the same configuration and
\* heuristics, hands createNode and createLeaf the same tree as the first,
\* whatever the order of the tasks and of the partitions' results
C7_Determinism ==
  (phase = "done" /\ builds = 2) => tree = refTree

\* a second build of a large input has finished: tasks ran, a leaf holds
\* several primitives
C7_Witness ==
  /\ phase = "done"
  /\ builds = 2
  /\ Len(totals) > SINGLE_THREADED_THRESHOLD
  /\ \E p \in Leaves : Len(p) = 1 /\ Len(tree[p].prims) > 2

\* the records of recurse: their split was returned by find
FindRecords == UNION {RecordsOf(frames[p]) : p \in {q \in DOMAIN frames : frames[q].fn = "recurse"}}

\* C8: find returns the temporal split exactly if it evaluated one and its SAH
\* is strictly smaller than the object split's; it evaluates one exactly if
\* the time range is larger than 1.01 / max_num_time_segments
C8_SplitSelector ==
  \A r \in FindRecords :
    LET maxT == MaxNumTimeSegments(heap, r)
        evaluated == r.split.tsah # -1
    IN /\ evaluated <=> (r.upper - r.lower) * maxT * 100 > 101 * TimeGrid
       /\ evaluated => /\ r.split.data = "TEMPORAL" <=> r.split.tsah < r.split.osah
                       /\ r.split.data = "OBJECT" <=> r.split.tsah >= r.split.osah
       /\ ~evaluated => r.split.data = "OBJECT"
       /\ r.split.sah = IF r.split.data = "TEMPORAL" THEN r.split.tsah ELSE r.split.osah

\* find has returned an object split on a tie, a temporal split, and an object
\* split without evaluating a temporal one
C8_Witness ==
  /\ \E r \in FindRecords : r.split.tsah = r.split.osah /\ r.split.data = "OBJECT"
  /\ \E r \in FindRecords : r.split.data = "TEMPORAL"
  /\ \E r \in FindRecords : r.split.tsah = -1

\* C9 as stated: a branching factor outside [2,8] never gets past construction
C9_OutOfRangeRejected ==
  ~LegalBranchingFactor => phase \in {"new", "config_error"}

\* C9 amended: a branching factor above 8, and no other, raises the
\* configuration error at construction, and then no build is attempted
C9_TooLargeRejected ==
  /\ cfg.branchingFactor > MAX_BRANCHING_FACTOR => phase \in {"new", "config_error"}
  /\ phase = "config_error" =>
       /\ cfg.branchingFactor > MAX_BRANCHING_FACTOR
       /\ error = "bvh_builder: branching factor too large"
       /\ frames = NoFrames /\ tree = NoTree /\ builds = 0
  /\ (cfg.branchingFactor <= MAX_BRANCHING_FACTOR /\ phase # "new") => phase # "config_error"

\* construction with branching factor 9 has failed
C9_Witness ==
  phase = "config_error" /\ cfg.branchingFactor = MAX_BRANCHING_FACTOR + 1

\* C10: when the build has ended in an error, every child list is gone and
\* every array a temporal split allocated has been deleted exactly once; the
\* caller's array is not deleted
C10_NoLeakOnFailure ==
  /\ \A a \in Allocated : heap[a].frees <= 1
  /\ phase = "failed" =>
       /\ frames = NoFrames
       /\ heap[1].live
       /\ \A a \in Allocated : heap[a].frees = 1 /\ ~heap[a].live

\* a build with tasks has failed after temporal splits allocated arrays in
\* the root and in a task
C10_Witness ==
  /\ phase = "failed"
  /\ Len(totals) > SINGLE_THREADED_THRESHOLD
  /\ Len(heap) >= 5

\* every created node has its children in the tree, and updateNode was called
CompleteTree ==
  \A p \in Nodes :
    /\ tree[p].updated
    /\ \A i \in 1 .. tree[p].n : Append(p, i) \in DOMAIN tree

\* C11: under fair scheduling a build that was entered finishes: it returns,
\* and then the tree is complete (every node has all its children and was
\* updated), or it raises an error
C11_Termination ==
  /\ [](phase = "done" => CompleteTree)
  /\ (phase = "building" ~> (phase \in {"done", "failed"} /\ frames = NoFrames))

\* a build has returned a tree with a node one of whose splits did not reduce
\* the number of primitives (both children of a temporal split keep them all)
C11_Witness ==
  /\ phase = "done"
  /\ \E p \in Nodes :
       /\ tree[p].updated
       /\ \E i, j \in 1 .. tree[p].n :
            /\ tree[p].kids[i].lower # tree[p].kids[j].lower
            /\ tree[p].kids[i].size = tree[p].kids[j].size
            /\ Append(p, i) \in Nodes

\* a configuration the builder documents as legal
LegalConfig ==
  /\ LegalBranchingFactor
  /\ cfg.maxDepth >= MIN_LARGE_LEAF_LEVELS
  /\ 1 <= cfg.minLeafSize
  /\ cfg.minLeafSize <= cfg.maxLeafSize

\* C12 as stated: with a legal configuration no record reaches createLargeLeaf
\* with depth > maxDepth, so the depth-limit error is never raised
C12_NoDepthLimitError ==
  LegalConfig =>
    /\ error # "depth limit reached"
    /\ \A p \in DOMAIN frames :
         /\ frames[p].exc # "depth limit reached"
         /\ frames[p].fn = "createLargeLeaf" => frames[p].current.depth <= cfg.maxDepth

\* the frames whose child list is constructed
WithList == {p \in DOMAIN frames : frames[p].list # NoList}

\* the live child slots of a list that point to wrapper w
SlotsOf(list, w) == {i \in 1 .. Len(list.children) : list.primvecs[i] = w}

\* C13: in every child list every live slot points to the wrapper of its
\* child's array, every wrapper's count is the number of live slots pointing
\* to it, plus one for the seed wrapper, and the array the list was seeded
\* with (the record's own) is never freed by the list
C13_ListRefCounts ==
  \A p \in WithList :
    LET list == frames[p].list
    IN /\ Len(list.primvecs) = Len(list.children)
       /\ \A i \in 1 .. Len(list.children) :
            /\ list.primvecs[i] \in 1 .. Len(list.sharedPrimVecs)
            /\ list.sharedPrimVecs[list.primvecs[i]].prims = list.children[i].prims
            /\ list.sharedPrimVecs[list.primvecs[i]].refCount >= 1
            /\ heap[list.children[i].prims].live
       /\ \A w \in 1 .. Len(list.sharedPrimVecs) :
            list.sharedPrimVecs[w].refCount =
              Cardinality(SlotsOf(list, w)) + (IF w = 1 THEN 1 ELSE 0)
       /\ list.sharedPrimVecs[1].prims = frames[p].current.prims
       /\ heap[frames[p].current.prims].live
       /\ heap[frames[p].current.prims].frees = 0

\* a list of three children after a temporal and an in-place split: no slot
\* points to the seed wrapper any more, a newer wrapper is shared by two slots
C13_Witness ==
  \E p \in WithList :
    LET list == frames[p].list
    IN /\ Len(list.children) = 3
       /\ SlotsOf(list, 1) = {}
       /\ list.sharedPrimVecs[1].refCount = 1
       /\ \E w \in 2 .. Len(list.sharedPrimVecs) : list.sharedPrimVecs[w].refCount = 2

\* C14: with a legal branching factor a child list never holds more than
\* branchingFactor (at most 8) children nor more than 16 wrappers, so no split
\* writes past children[7], primvecs[7] or sharedPrimVecs[15]
C14_ListCapacity ==
  LegalBranchingFactor =>
    \A p \in WithList :
      /\ Len(frames[p].list.children) <= cfg.branchingFactor
      /\ cfg.branchingFactor <= MAX_BRANCHING_FACTOR
      /\ Len(frames[p].list.primvecs) <= MAX_BRANCHING_FACTOR
      /\ Len(frames[p].list.sharedPrimVecs) <= 2 * MAX_BRANCHING_FACTOR

\* a list filled to eight children by seven temporal splits, each of which
\* allocated two wrappers
C14_Witness ==
  \E p \in WithList :
    /\ cfg.branchingFactor = MAX_BRANCHING_FACTOR
    /\ Len(frames[p].list.children) = MAX_BRANCHING_FACTOR
    /\ Len(frames[p].list.sharedPrimVecs) = 2 * MAX_BRANCHING_FACTOR - 1

\* a split that findFallback returned
FromFindFallback(split) == split.data \in {"FALLBACK", "TEMPORAL"} /\ split.osah = -1

\* C15: recurse builds no child list and creates no node for a record with
\* depth + 8 >= maxDepth: from there on everything is created by
\* createLargeLeaf, whose lists hold only splits that findFallback returned
C15_LargeLeafLevels ==
  /\ \A p \in DOMAIN tree :
       /\ tree[p].depth + MIN_LARGE_LEAF_LEVELS >= cfg.maxDepth => tree[p].by = "createLargeLeaf"
       /\ tree[p].by = "recurse" => tree[p].kind = "node"
  /\ \A p \in DOMAIN frames :
       /\ (frames[p].fn = "recurse" /\ frames[p].pc # "enter" /\ frames[p].list # NoList) =>
            frames[p].current.depth + MIN_LARGE_LEAF_LEVELS < cfg.maxDepth
       /\ (frames[p].fn = "createLargeLeaf" /\ frames[p].list # NoList) =>
            \A i \in 1 .. Len(frames[p].list.children) :
              FromFindFallback(frames[p].list.children[i].split)
       /\ (frames[p].fn = "recurse" /\ frames[p].pc = "enter"
             /\ frames[p].current.depth + MIN_LARGE_LEAF_LEVELS >= cfg.maxDepth) =>
            \A q \in DOMAIN frames : ~(Len(q) > Len(p) /\ SubSeq(q, 1, Len(p)) = p)

\* recurse created a node at depth maxDepth - 9, and its child at depth
\* maxDepth - 8 became a node of createLargeLeaf
C15_Witness ==
  \E p \in Nodes :
    /\ tree[p].by = "recurse"
    /\ tree[p].depth = cfg.maxDepth - MIN_LARGE_LEAF_LEVELS - 1
    /\ \E i \in 1 .. tree[p].n :
         /\ Append(p, i) \in Nodes
         /\ tree[Append(p, i)].by = "createLargeLeaf"

\* primitives in the order of deterministic_order
IsSorted(prims) == \A i \in 1 .. Len(prims) - 1 : prims[i].ID < prims[i + 1].ID

\* the leaves emitted by the createLargeLeaf call that recurse made
HandedOver == {p \in Leaves : p = <<>> \/ tree[Front(p)].by = "recurse"}

\* C16 as stated: every leaf is emitted right after a deterministic_order of
\* exactly its range, also inside createLargeLeaf
C16_SortBeforeEveryLeaf ==
  \A p \in Leaves : tree[p].ordered

\* C16 amended: a leaf emitted by the createLargeLeaf call that recurse made is
\* emitted right after a deterministic_order of exactly its range; a leaf
\* emitted by a nested createLargeLeaf call has no sort of its own range, its
\* range is a half of a range sorted before its fallback split or an array of
\* a temporal split; every range a createLargeLeaf list holds, and every
\* leaf, is in sorted order
C16_SortBeforeEmission ==
  /\ \A p \in HandedOver : tree[p].ordered
  /\ \A p \in Leaves \ HandedOver : ~tree[p].ordered
  /\ \A p \in Leaves : IsSorted(tree[p].prims)
  /\ \A p \in WithList :
       frames[p].fn = "createLargeLeaf" =>
         \A i \in 1 .. Len(frames[p].list.children) :
           IsSorted(PrimsOf(heap, frames[p].list.children[i]))

\* a tree with a leaf that recurse handed over after an object split and a
\* leaf below a temporal split of createLargeLeaf
C16_Witness ==
  /\ \E p \in HandedOver : p # <<>> /\ tree[p].ordered
  /\ \E p \in Leaves \ HandedOver :
       tree[p].upper - tree[p].lower < tree[Front(p)].upper - tree[Front(p)].lower

\* p is q or a caller of q
IsPrefix(p, q) == Len(p) <= Len(q) /\ SubSeq(q, 1, Len(p)) = p

\* two frames that run at the same time: neither waits for the other, so they
\* are in different tasks of one parallel_for
Concurrent(p, q) == ~IsPrefix(p, q) /\ ~IsPrefix(q, p)

\* two records that share an index of one array
Overlap(r1, r2) == r1.prims = r2.prims /\ r1.begin < r2.end /\ r2.begin < r1.end

\* C17: the records of two frames that run at the same time (their own and
\* those of their child lists) are in different arrays or in disjoint object
\* ranges of one array
C17_DisjointTasks ==
  \A p, q \in DOMAIN frames :
    Concurrent(p, q) =>
      \A r1 \in RecordsOf(frames[p]), r2 \in RecordsOf(frames[q]) : ~Overlap(r1, r2)

\* two tasks at work in disjoint ranges of the same array, one of them with a
\* child list
C17_Witness ==
  \E p, q \in DOMAIN frames :
    /\ Concurrent(p, q)
    /\ frames[p].current.prims = frames[q].current.prims
    /\ frames[p].pc # "enter"
    /\ frames[q].list # NoList

\* the frames whose list a step constructs, splits or destroys
ListTouched == {p \in DOMAIN frames : p \notin DOMAIN frames' \/ frames'[p].list # frames[p].list}

\* C18: the counters of a list's wrappers change only in steps of the one
\* invocation that owns the list: a step constructs, splits or destroys at
\* most one list, and then no invocation below its owner is running (the
\* children are not dispatched yet, or all have joined)
C18_ThreadConfinedCounters ==
  [][ /\ Cardinality(ListTouched) <= 1
      /\ \A p \in ListTouched : \A q \in DOMAIN frames : IsPrefix(p, q) => q = p ]_vars

\* two tasks at work, each with its own list, both lists with a wrapper of the
\* same array
C18_Witness ==
  \E p, q \in WithList :
    /\ Concurrent(p, q)
    /\ Len(frames[p].list.children) > 1
    /\ \E v \in 1 .. Len(frames[p].list.sharedPrimVecs), w \in 1 .. Len(frames[q].list.sharedPrimVecs) :
         frames[p].list.sharedPrimVecs[v].prims = frames[q].list.sharedPrimVecs[w].prims

\* the frames that are tasks of a parallel_for, and those recurse called in
\* its sequential loop
Tasks == {p \in DOMAIN frames : p # <<>> /\ frames[Front(p)].par}
SequentialChildren ==
  {p \in DOMAIN frames : p # <<>> /\ ~frames[Front(p)].par /\ frames[Front(p)].fn = "recurse"}

\* C19: a task of parallel_for is called with a null allocator and toplevel
\* set and creates its own handle; recurse's sequential loop calls the
\* children last to first with the caller's handle and toplevel unset; so
\* two frames that run at the same time never hold the same handle, and
\* createNode and createLeaf get the handle of their own task
C19_AllocatorConfined ==
  /\ \A p \in Tasks :
       /\ frames[p].toplevel
       /\ frames[p].pc \notin {"enter", "throw"} => frames[p].alloc = p
       /\ frames[p].alloc \in {NullAlloc, p}
       /\ Size(frames[Front(p)].current) > SINGLE_THREADED_THRESHOLD
  /\ \A p \in SequentialChildren :
       /\ ~frames[p].toplevel
       /\ frames[p].alloc = frames[Front(p)].alloc
       /\ frames[p].alloc # NullAlloc
       /\ Size(frames[Front(p)].current) <= SINGLE_THREADED_THRESHOLD
       /\ \A j \in 1 .. Len(frames[Front(p)].list.children) :
            /\ j < Last(p) => Append(Front(p), j) \notin DOMAIN tree
            /\ j > Last(p) => Append(Front(p), j) \in DOMAIN tree
  /\ \A p, q \in DOMAIN frames :
       (Concurrent(p, q) /\ frames[p].alloc # NullAlloc) => frames[p].alloc # frames[q].alloc
  /\ \A p \in DOMAIN tree :
       /\ tree[p].alloc # NullAlloc
       /\ IsPrefix(tree[p].alloc, p)
  /\ \A p \in Tasks : p \in DOMAIN tree => tree[p].alloc = p

\* two tasks with their own handles at work, one of them has called createNode
\* and its first child with its handle
C19_Witness ==
  \E p, q \in Tasks :
    /\ Concurrent(p, q)
    /\ frames[p].alloc = p
    /\ frames[q].alloc = q
    /\ p \in Nodes
    /\ tree[p].alloc = p
    /\ Append(p, 1) \in DOMAIN frames
    /\ frames[Append(p, 1)].alloc = p

\* the frames that are past the entry of recurse (createAlloc and
\* progressMonitor have returned), or are calls of createLargeLeaf
Entered ==
  {p \in DOMAIN frames :
     /\ frames[p].pc # "enter"
     /\ ~(frames[p].fn = "recurse" /\ frames[p].pc = "throw" /\ frames[p].list = NoList)}

\* the callers of frame p
Callers(p) == {SubSeq(p, 1, k) : k \in 0 .. Len(p) - 1}

\* C20: progressMonitor has been called by exactly the invocations of recurse
\* that have toplevel set and a record of at most 1024 primitives, with the
\* record's size; no invocation below a reporting one reports, has toplevel
\* set, has more than 1024 primitives or runs its children as tasks
C20_ProgressOnce ==
  /\ \A p \in Entered :
       p \in DOMAIN progress <=>
         (frames[p].toplevel /\ Size(frames[p].current) <= SINGLE_THREADED_THRESHOLD)
  /\ \A p \in Entered : p \in DOMAIN progress => progress[p] = Size(frames[p].current)
  /\ \A p \in DOMAIN progress :
       /\ progress[p] <= SINGLE_THREADED_THRESHOLD
       /\ Callers(p) \cap DOMAIN progress = {}
       /\ p # <<>> => /\ Front(p) \in Nodes
                      /\ tree[Front(p)].by = "recurse"
                      /\ tree[Front(p)].kids[Last(p)].size = progress[p]
  /\ \A p \in DOMAIN frames :
       /\ Callers(p) \cap DOMAIN progress # {} =>
            /\ ~frames[p].toplevel
            /\ ~frames[p].par
            /\ Size(frames[p].current) <= SINGLE_THREADED_THRESHOLD
       /\ frames[p].par => p \notin DOMAIN progress
       /\ frames[p].toplevel => (p = <<>> \/ p \in Tasks)

\* two tasks of a root above the threshold have reported their sizes, the
\* root has not, and a call below one of them is running
C20_Witness ==
  /\ <<>> \notin DOMAIN progress
  /\ \E p, q \in DOMAIN progress :
       /\ p # q
       /\ progress[p] + progress[q] = SINGLE_THREADED_THRESHOLD + 1
       /\ \E c \in DOMAIN frames : p \in Callers(c) /\ c \notin DOMAIN progress

\* the build of one primitive whose leaves may hold a single time segment
SinglePrimitive == Len(totals) = 1 /\ cfg.singleLeafTimeSegment

\* the length of one time segment of the primitive, and the time k/T
SegmentLength == TimeGrid \div totals[1]
SegmentTime(k) == k * SegmentLength

\* the times at which the children of the created nodes meet
SplitTimes ==
  UNION {{tree[p].kids[i].lower : i \in 1 .. tree[p].n} \ {tree[p].lower} : p \in Nodes}

\* a split of record rec at the integer centre of its range of time segments
AtIntegerCentre(rec) ==
  LET b == rec.lower \div SegmentLength
      e == (rec.upper + SegmentLength - 1) \div SegmentLength
  IN /\ e - b > 1
     /\ rec.split.pos = SegmentTime((b + e) \div 2)

\* C21: one primitive with T time segments over [0,1], singleLeafTimeSegment
\* set: every record of createLargeLeaf that spans more than one segment has
\* a temporal split at the integer centre of its segment range divided by T,
\* every other record a fallback split; every leaf holds the primitive with a
\* single active time segment; when T <= 2^maxDepth no depth-limit error is
\* raised, and a build that returns has split time exactly at the times k/T,
\* 0 < k < T, and emitted exactly T leaves, one per segment [k/T,(k+1)/T]
C21_ForcedTemporalSplits ==
  SinglePrimitive =>
    /\ \A p \in DOMAIN frames :
         (frames[p].fn = "createLargeLeaf" /\ frames[p].list # NoList) =>
           \A i \in 1 .. Len(frames[p].list.children) :
             LET rec == frames[p].list.children[i]
             IN IF rec.upper - rec.lower > SegmentLength
                  THEN rec.split.data = "TEMPORAL" /\ AtIntegerCentre(rec)
                  ELSE rec.split.data = "FALLBACK"
    /\ \A p \in Leaves :
         /\ tree[p].upper - tree[p].lower = SegmentLength
         /\ tree[p].lower % SegmentLength = 0
         /\ tree[p].prims = <<[ID |-> 1, active |-> 1, total |-> totals[1]]>>
    /\ SplitTimes \subseteq {SegmentTime(k) : k \in 1 .. totals[1] - 1}
    /\ (totals[1] <= 2 ^ cfg.maxDepth /\ ~mayThrow) => phase # "failed"
    /\ phase = "done" =>
         /\ SplitTimes = {SegmentTime(k) : k \in 1 .. totals[1] - 1}
         /\ Cardinality(Leaves) = totals[1]
         /\ {tree[p].lower : p \in Leaves} = {SegmentTime(k) : k \in 0 .. totals[1] - 1}

\* the build of a primitive with four time segments has returned: the splits
\* were at 1/4, 1/2 and 3/4, and there are four leaves
C21_Witness ==
  /\ SinglePrimitive
  /\ totals[1] = 4
  /\ phase = "done"
  /\ SplitTimes = {SegmentTime(1), SegmentTime(2), SegmentTime(3)}
  /\ Cardinality(Leaves) = 4
  /\ \E p \in Leaves : tree[p].lower = SegmentTime(3) /\ tree[p].upper = TimeGrid

====
